---- MODULE Spec2Model ----
(***************************************************************************)
(* Model of the citation analyzer (src/utils/citation_analyzer.py) and of  *)
(* the TF-IDF comparator (src/utils/cosinus_comparator.py).                *)
(*                                                                         *)
(* A text is a sequence of Unicode code points (a Python str).  A metric   *)
(* value is an exact rational <<numerator, denominator>>; a value rounded  *)
(* to 4 decimals is the integer number of 1/10000 units.                   *)
(***************************************************************************)
EXTENDS Integers, Sequences, FiniteSets, TLC

(***************************************************************************)
(* Characters and the str methods the code uses.                           *)
(***************************************************************************)
IsDigit(c) == c \in 48..57
IsAsciiLetter(c) == c \in 65..90 \/ c \in 97..122
IsAsciiAlnum(c) == IsAsciiLetter(c) \/ IsDigit(c)
\* [a-zA-Z0-9-]
IsLabelChar(c) == IsAsciiAlnum(c) \/ c = 45
\* \s
IsSpace(c) == c \in {9, 10, 11, 12, 13, 32}
\* [a-zA-Zа-яА-ЯёЁ] of the word-count pattern, lines 187 and 234
IsWordLetter(c) == IsAsciiLetter(c) \/ c \in 1040..1103 \/ c = 1025 \/ c = 1105
\* \w of the regex engine, for the Latin and Cyrillic ranges
IsWordChar(c) == IsAsciiAlnum(c) \/ c = 95 \/ c \in 1024..1279
\* [^\s,;.]
IsPathChar(c) == ~IsSpace(c) /\ c \notin {44, 59, 46}

\* str.lower() on one character (Latin and Cyrillic)
LowerChar(c) ==
  IF c \in 65..90 \/ c \in 1040..1071 THEN c + 32
  ELSE IF c \in 1024..1039 THEN c + 80
  ELSE c

Lower(s) == [i \in 1..Len(s) |-> LowerChar(s[i])]

Drop(s, n) == SubSeq(s, n + 1, Len(s))

CharAt(s, i) == IF i \in 1..Len(s) THEN s[i] ELSE 0

SetMin(S) == CHOOSE x \in S : \A y \in S : x <= y
SetMax(S) == CHOOSE x \in S : \A y \in S : x >= y

\* The index before the first index of stop, the last index of s when stop
\* is empty
RunEndOf(s, stop) == IF stop = {} THEN Len(s) ELSE SetMin(stop) - 1

\* Last index of the maximal run of characters of class P that starts at i
\* (i - 1 when s[i] is not of the class or i is past the end).
RunEnd(s, i, P(_)) == RunEndOf(s, {k \in i..Len(s) : ~P(s[k])})

LStrip(s) == Drop(s, RunEnd(s, 1, IsSpace))

UpToLast(s, keep) == IF keep = {} THEN <<>> ELSE SubSeq(s, 1, SetMax(keep))
RStrip(s) == UpToLast(s, {k \in 1..Len(s) : ~IsSpace(s[k])})

\* str.strip()
Strip(s) == RStrip(LStrip(s))

\* s[i:] starts with p, ignoring case (p is given in lower case)
StartsWithAt(s, i, p) ==
  /\ i + Len(p) - 1 <= Len(s)
  /\ \A k \in 1..Len(p) : LowerChar(s[i + k - 1]) = p[k]

\* str.split(c)[0]
SplitFirst(s, c) == SubSeq(s, 1, RunEndOf(s, {k \in 1..Len(s) : s[k] = c}))

\* str.split(c)
RECURSIVE SplitOn(_, _)
SplitRest(s, c, head) ==
  IF Len(head) = Len(s) THEN <<head>>
  ELSE <<head>> \o SplitOn(Drop(s, Len(head) + 1), c)

SplitOn(s, c) == SplitRest(s, c, SplitFirst(s, c))

HttpPrefix == <<104, 116, 116, 112, 58, 47, 47>>
HttpsPrefix == <<104, 116, 116, 112, 115, 58, 47, 47>>
WwwPrefix == <<119, 119, 119, 46>>

\* line 113: re.sub(r'^https?://', '', domain)
StripProtocol(s) ==
  IF StartsWithAt(s, 1, HttpsPrefix) THEN Drop(s, 8)
  ELSE IF StartsWithAt(s, 1, HttpPrefix) THEN Drop(s, 7)
  ELSE s

\* line 115: re.sub(r'^www\.', '', domain)
StripWww(s) == IF StartsWithAt(s, 1, WwwPrefix) THEN Drop(s, 4) ELSE s

normalize_domain_keepport(domain) ==
  SplitFirst(StripWww(StripProtocol(Strip(Lower(domain)))), 47)

\* CitationAnalyzer._normalize_domain
normalize_domain(domain) ==
  SplitFirst(SplitFirst(StripWww(StripProtocol(Strip(Lower(domain)))), 47), 58)

(***************************************************************************)
(* The regular expressions, matched as the regex engine matches them       *)
(* (leftmost match, greedy quantifiers, alternatives in order).            *)
(***************************************************************************)
NoMatch == [ok |-> FALSE, gstart |-> 0, gend |-> 0, end |-> 0]

\* DOMAIN_PATTERN from the capture group on, tried at index j (lines 68-74):
\* a label that ends at r, a dot, a TLD of 2+ letters that ends at t, an
\* optional second TLD part that ends at u, an optional path.  g is the
\* last index of the group.
CorePath(s, j, g) ==
  [ok |-> TRUE, gstart |-> j, gend |-> g,
   end |-> IF CharAt(s, g + 1) = 47 THEN RunEnd(s, g + 2, IsPathChar) ELSE g]

CoreSecond(s, j, t, u) ==
  CorePath(s, j, IF CharAt(s, t + 1) = 46 /\ u >= t + 3 THEN u ELSE t)

CoreTld(s, j, r, t) ==
  IF t < r + 3 THEN NoMatch
  ELSE CoreSecond(s, j, t, RunEnd(s, t + 2, IsAsciiLetter))

CoreLabel(s, j, r) ==
  IF r - j + 1 > 63 \/ ~IsAsciiAlnum(s[r]) \/ CharAt(s, r + 1) # 46
  THEN NoMatch
  ELSE CoreTld(s, j, r, RunEnd(s, r + 2, IsAsciiLetter))

DomainCoreAt(s, j) ==
  IF ~IsAsciiAlnum(CharAt(s, j)) THEN NoMatch
  ELSE CoreLabel(s, j, RunEnd(s, j, IsLabelChar))

FirstOk(c1, c2, c3, c4) ==
  IF c1.ok THEN c1 ELSE IF c2.ok THEN c2 ELSE IF c3.ok THEN c3 ELSE c4

\* (?:https?://)? at index i: the length it consumes
ProtocolLen(s, i) ==
  IF StartsWithAt(s, i, HttpsPrefix) THEN 8
  ELSE IF StartsWithAt(s, i, HttpPrefix) THEN 7
  ELSE 0

\* The optional protocol (of length p) and the optional www. are each
\* tried consumed first, then skipped.
MatchAfterProtocol(s, i, p) ==
  FirstOk(IF p > 0 /\ StartsWithAt(s, i + p, WwwPrefix)
          THEN DomainCoreAt(s, i + p + 4) ELSE NoMatch,
          IF p > 0 THEN DomainCoreAt(s, i + p) ELSE NoMatch,
          IF StartsWithAt(s, i, WwwPrefix)
          THEN DomainCoreAt(s, i + 4) ELSE NoMatch,
          DomainCoreAt(s, i))

\* DOMAIN_PATTERN tried at index i
DomainMatchAt(s, i) == MatchAfterProtocol(s, i, ProtocolLen(s, i))

\* DOMAIN_PATTERN.finditer(s) from index start on: group(1) of every match,
\* left to right.  The next match is the one at the least index that has one.
RECURSIVE DomainFindAll(_, _)
DomainFindRest(s, m) ==
  <<SubSeq(s, m.gstart, m.gend)>> \o DomainFindAll(s, m.end + 1)

DomainFindNext(s, starts) ==
  IF starts = {} THEN <<>>
  ELSE DomainFindRest(s, DomainMatchAt(s, SetMin(starts)))

DomainFindAll(s, start) ==
  DomainFindNext(s, {i \in start..Len(s) : DomainMatchAt(s, i).ok})

\* The literal alternatives of GLUED_DOMAIN_PATTERN, in the order written:
\* com ru org net co.uk io info biz edu gov uk de fr es it nl eu us ca au
\* jp cn in br mx pl cz sk ua by kz
GluedTlds ==
  << <<99, 111, 109>>, <<114, 117>>, <<111, 114, 103>>, <<110, 101, 116>>,
     <<99, 111, 46, 117, 107>>, <<105, 111>>, <<105, 110, 102, 111>>,
     <<98, 105, 122>>, <<101, 100, 117>>, <<103, 111, 118>>, <<117, 107>>,
     <<100, 101>>, <<102, 114>>, <<101, 115>>, <<105, 116>>, <<110, 108>>,
     <<101, 117>>, <<117, 115>>, <<99, 97>>, <<97, 117>>, <<106, 112>>,
     <<99, 110>>, <<105, 110>>, <<98, 114>>, <<109, 120>>, <<112, 108>>,
     <<99, 122>>, <<115, 107>>, <<117, 97>>, <<98, 121>>, <<107, 122>> >>

LetterAt(s, k) == IsAsciiLetter(CharAt(s, k))
AlnumAt(s, k) == IsAsciiAlnum(CharAt(s, k))

\* [a-z]{2,3}(?:\.[a-z]{2})? then the lookahead, at index q: three letters
\* before two, the dotted part before none
GenericTldEnd(s, q) ==
  IF LetterAt(s, q) /\ LetterAt(s, q + 1) /\ LetterAt(s, q + 2)
     /\ CharAt(s, q + 3) = 46 /\ LetterAt(s, q + 4) /\ LetterAt(s, q + 5)
     /\ AlnumAt(s, q + 6) THEN q + 5
  ELSE IF LetterAt(s, q) /\ LetterAt(s, q + 1) /\ LetterAt(s, q + 2)
          /\ AlnumAt(s, q + 3) THEN q + 2
  ELSE IF LetterAt(s, q) /\ LetterAt(s, q + 1) /\ CharAt(s, q + 2) = 46
          /\ LetterAt(s, q + 3) /\ LetterAt(s, q + 4) /\ AlnumAt(s, q + 5)
       THEN q + 4
  ELSE IF LetterAt(s, q) /\ LetterAt(s, q + 1) /\ AlnumAt(s, q + 2) THEN q + 1
  ELSE 0

\* The TLD alternation at index q: lits are the literal alternatives that
\* match there and are followed by a letter or digit
TldEnd(s, q, lits) ==
  IF lits # {} THEN q + Len(GluedTlds[SetMin(lits)]) - 1
  ELSE GenericTldEnd(s, q)

GluedAfterLabel(s, r) ==
  IF CharAt(s, r + 1) # 46 THEN 0
  ELSE TldEnd(s, r + 2,
              {k \in 1..Len(GluedTlds) :
                 /\ StartsWithAt(s, r + 2, GluedTlds[k])
                 /\ AlnumAt(s, r + 2 + Len(GluedTlds[k]))})

\* GLUED_DOMAIN_PATTERN tried at index i (lines 79-83): the index of the
\* last character of the match, 0 when there is none.  The lookahead
\* (?=[a-zA-Z0-9]) makes the engine go on to the next alternative, and then
\* to a shorter [a-z]{2,3}.
GluedMatchEnd(s, i) ==
  IF ~IsLabelChar(CharAt(s, i)) THEN 0
  ELSE GluedAfterLabel(s, RunEnd(s, i, IsLabelChar))

\* The glue-repair pass, lines 138-145: a space inserted after every match
\* of GLUED_DOMAIN_PATTERN.finditer(text)
RECURSIVE GlueRepair(_, _)
GlueRest(s, start, e) == SubSeq(s, start, e) \o <<32>> \o GlueRepair(s, e + 1)

GlueNext(s, start, starts) ==
  IF starts = {} THEN SubSeq(s, start, Len(s))
  ELSE GlueRest(s, start, GluedMatchEnd(s, SetMin(starts)))

\* the text from index start on, repaired
GlueRepair(s, start) ==
  GlueNext(s, start, {i \in start..Len(s) : GluedMatchEnd(s, i) > 0})

NormalizeAll(found) == [k \in 1..Len(found) |-> normalize_domain(found[k])]

\* line 150: a domain of at most 3 characters is dropped
LongEnough(domain) == Len(domain) > 3

\* CitationAnalyzer._extract_domains_from_text
extract_domains_from_text(text) ==
  SelectSeq(NormalizeAll(DomainFindAll(GlueRepair(text, 1), 1)), LongEnough)

\* len(re.findall(r'\b[a-zA-Zа-яА-ЯёЁ]+\b', s)): the maximal runs of \w
\* characters that consist of these letters only
WordCount(s) ==
  Cardinality({i \in 1..Len(s) :
                 /\ IsWordChar(s[i])
                 /\ ~IsWordChar(CharAt(s, i - 1))
                 /\ \A k \in i..RunEnd(s, i, IsWordChar) : IsWordLetter(s[k])})

(***************************************************************************)
(* Text Segmenter: CitationAnalyzer._split_into_paragraphs                 *)
(***************************************************************************)
\* re.split(r'\n\s*\n|\n{2,}', s), line 166: a separator runs from a newline
\* to the last newline of the whitespace that follows it (nl: the newlines
\* of that whitespace)
NewlinesUpTo(s, i, w) == {k \in (i + 1)..w : s[k] = 10}

\* The newlines of the whitespace that follows index i
NewlinesAfter(s, i) == NewlinesUpTo(s, i, RunEnd(s, i + 1, IsSpace))

\* The text from index start on, split: the next separator starts at the
\* least index that starts one
RECURSIVE ReSplitFrom(_, _)
ReSplitAt(s, start, i) ==
  <<SubSeq(s, start, i - 1)>> \o ReSplitFrom(s, SetMax(NewlinesAfter(s, i)) + 1)

ReSplitNext(s, start, seps) ==
  IF seps = {} THEN <<SubSeq(s, start, Len(s))>>
  ELSE ReSplitAt(s, start, SetMin(seps))

ReSplitFrom(s, start) ==
  ReSplitNext(s, start,
              {i \in start..Len(s) : s[i] = 10 /\ NewlinesAfter(s, i) # {}})

RECURSIVE Join(_, _)
Join(parts, sep) ==
  IF parts = <<>> THEN <<>>
  ELSE IF Len(parts) = 1 THEN parts[1]
  ELSE parts[1] \o sep \o Join(Tail(parts), sep)

RECURSIVE Flatten(_)
Flatten(lists) ==
  IF lists = <<>> THEN <<>> ELSE lists[1] \o Flatten(Tail(lists))

CitationRule_NoShortLine(domains, words) ==
  domains > 0 /\ 3 * domains >= words

\* line 190, on the number of domains and of words of the line: the line
\* holds domains, and they are at least a third of its words or the line
\* has fewer than 5 words
CitationRule(domains, words) ==
  domains > 0 /\ (3 * domains >= words \/ words < 5)

IsCitationLine(line) ==
  CitationRule(Len(extract_domains_from_text(line)), WordCount(line))

IsTextLine(line) == ~IsCitationLine(line)

NonEmpty(line) == line # <<>>

StripAll(lines) == [k \in 1..Len(lines) |-> Strip(lines[k])]

DomainsOfLines(lines) ==
  Flatten([k \in 1..Len(lines) |-> extract_domains_from_text(lines[k])])

\* lines 175-193 for one raw paragraph
SplitLines(para) ==
  [text_lines |->
     SelectSeq(SelectSeq(StripAll(SplitOn(Strip(para), 10)), NonEmpty),
               IsTextLine),
   citation_lines |->
     DomainsOfLines(
       SelectSeq(SelectSeq(StripAll(SplitOn(Strip(para), 10)), NonEmpty),
                 IsCitationLine))]

\* lines 195-197
ParagraphEntry(sl) ==
  IF sl.text_lines # <<>>
  THEN <<[text |-> Join(sl.text_lines, <<32>>), citations |-> sl.citation_lines]>>
  ELSE <<>>

\* lines 168-197: the raw paragraphs that have a prose line, each with the
\* domains of its citation lines
RECURSIVE CollectParagraphs(_)
CollectParagraphs(paragraphs_raw) ==
  IF paragraphs_raw = <<>> THEN <<>>
  ELSE IF Strip(paragraphs_raw[1]) = <<>>
       THEN CollectParagraphs(Tail(paragraphs_raw))
       ELSE ParagraphEntry(SplitLines(paragraphs_raw[1]))
            \o CollectParagraphs(Tail(paragraphs_raw))

\* lines 207-211
MergeOne(processed_result, cur, n) ==
  IF Strip(cur.text) = <<>> /\ cur.citations # <<>> /\ n > 0
  THEN [processed_result EXCEPT
          ![n].citations = processed_result[n].citations \o cur.citations]
  ELSE Append(processed_result, cur)

\* lines 201-213: an entry with blank text and citations is folded into the
\* entry before it
RECURSIVE MergeTrailing(_, _)
MergeTrailing(result, processed_result) ==
  IF result = <<>> THEN processed_result
  ELSE MergeTrailing(Tail(result),
                     MergeOne(processed_result, result[1], Len(processed_result)))

\* CitationAnalyzer._split_into_paragraphs
split_into_paragraphs(text) ==
  MergeTrailing(CollectParagraphs(ReSplitFrom(Strip(text), 1)), <<>>)

(***************************************************************************)
(* Exact arithmetic for the metric values: a non-negative rational is      *)
(* <<numerator, denominator>> in lowest terms.                             *)
(***************************************************************************)
RECURSIVE GCD(_, _)
GCD(a, b) == IF b = 0 THEN a ELSE GCD(b, a % b)

Reduce(n, d, g) == <<n \div g, d \div g>>
R(n, d) == Reduce(n, d, GCD(n, d))

RZero == <<0, 1>>
ROne == <<1, 1>>

RAddOver(a, b, l) == R(a[1] * (l \div a[2]) + b[1] * (l \div b[2]), l)
RAdd(a, b) == RAddOver(a, b, (a[2] \div GCD(a[2], b[2])) * b[2])

RMulBy(a, b, g1, g2) ==
  R((a[1] \div g1) * (b[1] \div g2), (a[2] \div g2) * (b[2] \div g1))
RMul(a, b) == RMulBy(a, b, GCD(a[1], b[2]), GCD(b[1], a[2]))

RLess(a, b) == a[1] * b[2] < b[1] * a[2]
RLeq(a, b) == a[1] * b[2] <= b[1] * a[2]
RMin(a, b) == IF RLess(b, a) THEN b ELSE a

RECURSIVE RSum(_)
RSum(xs) == IF xs = <<>> THEN RZero ELSE RAdd(xs[1], RSum(Tail(xs)))

\* Sum of f over the elements of a sequence
SumOver(xs, f(_)) == RSum([i \in 1..Len(xs) |-> f(xs[i])])

RECURSIVE Pow2(_)
Pow2(n) == IF n = 0 THEN 1 ELSE 2 * Pow2(n - 1)

\* Long division of r/d, k more decimal digits after the quotient q so far,
\* then round half to even
RECURSIVE RoundDigits(_, _, _, _)
RoundDigits(q, r, d, k) ==
  IF k > 0 THEN RoundDigits(10 * q + (10 * r) \div d, (10 * r) % d, d, k - 1)
  ELSE IF 2 * r > d \/ (2 * r = d /\ q % 2 = 1) THEN q + 1
  ELSE q

\* round(x, 4), as a number of 1/10000 units
Round4(x) == RoundDigits(x[1] \div x[2], x[1] % x[2], x[2], 4)

(***************************************************************************)
(* Citation Indexer: the analyzer object, CitationAnalyzer._parse_response *)
(***************************************************************************)
\* Python None (a site is never the empty string)
None == <<>>

\* CitationAnalyzer.__init__
NewAnalyzer(target) ==
  [target_site |-> normalize_domain(target),
   all_citations |-> <<>>,
   site_citations |-> <<>>,
   total_words |-> 0,
   paragraphs |-> <<>>]

\* _site_citations is a dict in insertion order: a sequence of
\* [site, citations] entries
EntriesOf(d, site) == {i \in 1..Len(d) : d[i].site = site}

CitationsAt(d, at) ==
  IF at = {} THEN <<>> ELSE d[CHOOSE i \in at : TRUE].citations

\* d.get(site, [])
SiteCitations(d, site) == CitationsAt(d, EntriesOf(d, site))

AppendAt(d, at, c) ==
  IF at = {} THEN Append(d, [site |-> c.domain, citations |-> <<c>>])
  ELSE [d EXCEPT ![CHOOSE i \in at : TRUE].citations = Append(@, c)]

\* d[c.domain].append(c) on a defaultdict(list)
SiteAppend(d, c) == AppendAt(d, EntriesOf(d, c.domain), c)

\* list(d.keys())
SiteKeys(d) == [i \in 1..Len(d) |-> d[i].site]

ResetAnalysis_KeepSites(self) ==
  [self EXCEPT !.all_citations = <<>>, !.paragraphs = <<>>]

\* lines 224-226
ResetAnalysis(self) ==
  [self EXCEPT !.all_citations = <<>>, !.site_citations = <<>>,
               !.paragraphs = <<>>]

\* lines 255-256
AddCitation(self, citation) ==
  [self EXCEPT !.all_citations = Append(@, citation),
               !.site_citations = SiteAppend(@, citation)]

NewCitation_PositionInGroup(citations, idx_in_group, para_idx, word_count, global_position) ==
  [domain |-> citations[idx_in_group + 1],
   position |-> idx_in_group,
   paragraph_index |-> para_idx,
   index_in_group |-> idx_in_group,
   group_size |-> Len(citations),
   window_words |-> word_count]

NewCitation_SizeLess1(citations, idx_in_group, para_idx, word_count, global_position) ==
  [domain |-> citations[idx_in_group + 1],
   position |-> global_position,
   paragraph_index |-> para_idx,
   index_in_group |-> idx_in_group,
   group_size |-> Len(citations) - 1,
   window_words |-> word_count]

\* lines 245-254
NewCitation(citations, idx_in_group, para_idx, word_count, global_position) ==
  [domain |-> citations[idx_in_group + 1],
   position |-> global_position,
   paragraph_index |-> para_idx,
   index_in_group |-> idx_in_group,
   group_size |-> Len(citations),
   window_words |-> word_count]

\* lines 246-257: the citations of one paragraph, from index idx_in_group on
RECURSIVE EmitCitations(_, _, _, _, _, _)
EmitCitations(self, citations, idx_in_group, para_idx, word_count, global_position) ==
  IF idx_in_group >= Len(citations) THEN self
  ELSE EmitCitations(
         AddCitation(self, NewCitation(citations, idx_in_group, para_idx,
                                       word_count, global_position)),
         citations, idx_in_group + 1, para_idx, word_count,
         global_position + 1)

\* lines 237-257, word_count being the paragraph's word count
IndexCounted(self, para, para_idx, global_position, word_count) ==
  EmitCitations(
    [self EXCEPT !.paragraphs =
       Append(@, [text |-> para.text, word_count |-> word_count,
                  citations |-> para.citations])],
    para.citations, 0, para_idx, word_count, global_position)

\* lines 234-257: one iteration of the paragraph loop
IndexParagraph(self, para, para_idx, global_position) ==
  IndexCounted(self, para, para_idx, global_position, WordCount(para.text))

\* The paragraph loop from paragraph para_idx on, and line 259
RECURSIVE IndexFrom(_, _, _, _, _)
IndexFrom(self, paras, para_idx, global_position, total_words) ==
  IF para_idx >= Len(paras)
  THEN [self EXCEPT !.total_words = total_words]
  ELSE IndexFrom(IndexParagraph(self, paras[para_idx + 1], para_idx,
                                global_position),
                 paras, para_idx + 1,
                 global_position + Len(paras[para_idx + 1].citations),
                 total_words + WordCount(paras[para_idx + 1].text))

\* CitationAnalyzer._parse_response on an analyzer no other call touches
parse_response(self, response_text) ==
  IndexFrom(ResetAnalysis(self), split_into_paragraphs(response_text), 0, 0, 0)

(***************************************************************************)
(* Metrics Calculator                                                      *)
(***************************************************************************)
\* line 278, one term: 10 * 0.5 ** c.position
PosTerm_Linear(c) == R(10, 1 + c.position)

PosTerm(c) == R(10, Pow2(c.position))

\* lines 275-283
PosOf(citations) ==
  IF citations = <<>> THEN RZero
  ELSE RMin(RMul(SumOver(citations, PosTerm), <<1, 10>>), ROne)

\* CitationAnalyzer._calculate_pos
calculate_pos(self, site) == PosOf(SiteCitations(self.site_citations, site))

\* The paragraph indexes of a site's citations (the keys of para_citations)
ParagraphsOf(citations) ==
  {citations[i].paragraph_index : i \in 1..Len(citations)}

\* len(site_citations) at line 323
Mentions(citations, para_idx) ==
  Cardinality({i \in 1..Len(citations) : citations[i].paragraph_index = para_idx})

ParaSlots_UniqueSites(para) ==
  Cardinality({para.citations[i] : i \in 1..Len(para.citations)})

\* line 317: total_citations_in_para
ParaSlots(para) == Len(para.citations)

\* line 326, with the guard of line 319
Share(word_count, site_mentions, total_citations_in_para) ==
  IF total_citations_in_para = 0 THEN RZero
  ELSE R(word_count * site_mentions, total_citations_in_para)

\* lines 309-327 for one paragraph: the words attributed to the site
Attributed(self, citations, para_idx) ==
  IF para_idx >= Len(self.paragraphs) THEN RZero
  ELSE Share(self.paragraphs[para_idx + 1].word_count,
             Mentions(citations, para_idx),
             ParaSlots(self.paragraphs[para_idx + 1]))

\* Sum of Attributed over a set S of paragraph indexes, all below top
SumAttributed(self, citations, S, top) ==
  RSum([k \in 1..top |->
          IF (k - 1) \in S THEN Attributed(self, citations, k - 1) ELSE RZero])

TotalAttributed(self, citations, S) ==
  SumAttributed(self, citations, S, IF S = {} THEN 0 ELSE SetMax(S) + 1)

\* lines 295-330
WordOf(self, citations) ==
  IF self.total_words = 0 THEN RZero
  ELSE IF citations = <<>> THEN RZero
  ELSE RMin(RMul(TotalAttributed(self, citations, ParagraphsOf(citations)),
                 <<1, self.total_words>>),
            ROne)

\* CitationAnalyzer._calculate_word
calculate_word(self, site) ==
  WordOf(self, SiteCitations(self.site_citations, site))

HasZeroGroup_OrEmpty(citations) ==
  citations = <<>> \/ \E i \in 1..Len(citations) : citations[i].group_size = 0

\* line 374 divides by c.group_size: ZeroDivisionError when it is 0
HasZeroGroup(citations) ==
  \E i \in 1..Len(citations) : citations[i].group_size = 0

\* _calculate_citation_quality raises
QualityRaises(self, site) ==
  HasZeroGroup(SiteCitations(self.site_citations, site))

\* line 377
PosBonus(c) ==
  IF 3 - c.index_in_group > 0 THEN R(3 - c.index_in_group, 10) ELSE RZero

\* line 380
LengthBonus(c) == IF c.window_words > 20 THEN <<2, 10>> ELSE RZero

\* lines 372-383 for one citation
RawQuality(c) ==
  RAdd(RAdd(R(1, c.group_size), PosBonus(c)), LengthBonus(c))

HasSolo(citations) == \E i \in 1..Len(citations) : citations[i].group_size = 1
HasGroup(citations) == \E i \in 1..Len(citations) : citations[i].group_size > 1

\* lines 353-362
SoloGroupFactor(citations) ==
  IF HasSolo(citations) /\ HasGroup(citations) THEN <<10, 10>>
  ELSE IF HasSolo(citations) THEN <<9, 10>>
  ELSE <<7, 10>>

\* lines 365-367
UniqueBonus(self) ==
  IF Len(self.site_citations) = 1 /\ Len(self.all_citations) = 1
  THEN <<1, 10>> ELSE RZero

\* line 386
AvgQuality(citations) ==
  RMul(SumOver(citations, RawQuality), <<1, Len(citations)>>)

QualityOf_Unclamped(self, citations) ==
  IF citations = <<>> THEN RZero
  ELSE RAdd(RMul(AvgQuality(citations), SoloGroupFactor(citations)),
            UniqueBonus(self))

\* lines 349-391
QualityOf(self, citations) ==
  IF citations = <<>> THEN RZero
  ELSE RMin(RAdd(RMul(AvgQuality(citations), SoloGroupFactor(citations)),
                 UniqueBonus(self)),
            ROne)

\* CitationAnalyzer._calculate_citation_quality
calculate_citation_quality(self, site) ==
  QualityOf(self, SiteCitations(self.site_citations, site))

TotalScore_EqualWeights(pos, word, citation_quality) ==
  RMul(RAdd(RAdd(pos, word), citation_quality), <<1, 3>>)

\* lines 407-411
TotalScore(pos, word, citation_quality) ==
  RAdd(RAdd(RMul(pos, <<6, 10>>), RMul(word, <<3, 10>>)),
       RMul(citation_quality, <<1, 10>>))

\* SiteMetrics with its four fields set
SiteMetrics(pos, word, citation_quality) ==
  [pos |-> pos, word |-> word, citation_quality |-> citation_quality,
   total_score |-> TotalScore(pos, word, citation_quality)]

\* CitationAnalyzer._calculate_metrics_for_site
calculate_metrics_for_site(self, site) ==
  SiteMetrics(calculate_pos(self, site), calculate_word(self, site),
              calculate_citation_quality(self, site))

\* SiteMetrics.to_dict
to_dict(m) ==
  [pos |-> Round4(m.pos), word |-> Round4(m.word),
   citation_quality |-> Round4(m.citation_quality),
   total_score |-> Round4(m.total_score)]

\* lines 434-435 for the sites in keys
MetricsOfSites(self, keys) ==
  [i \in 1..Len(keys) |->
     [site |-> keys[i],
      metrics |-> to_dict(calculate_metrics_for_site(self, keys[i]))]]

\* line 433
IsCompetitor(self, site) == site # self.target_site

\* lines 431-435: the metrics of every discovered site but the target, in
\* discovery order (a dict in insertion order)
Competitors(self) ==
  MetricsOfSites(self,
    SelectSeq(SiteKeys(self.site_citations), LAMBDA site : IsCompetitor(self, site)))

\* the loop of lines 432-435 raises
CompetitorsRaise(self) ==
  \E i \in 1..Len(self.site_citations) :
     /\ IsCompetitor(self, self.site_citations[i].site)
     /\ QualityRaises(self, self.site_citations[i].site)

\* line 440
Better(metrics, best) == metrics.total_score > best.score

\* lines 439-441: the loop from entry i on
RECURSIVE BestFrom(_, _, _)
BestFrom(competitors, i, best) ==
  IF i > Len(competitors) THEN best
  ELSE IF Better(competitors[i].metrics, best)
       THEN BestFrom(competitors, i + 1,
                     [site |-> competitors[i].site,
                      score |-> competitors[i].metrics.total_score])
       ELSE BestFrom(competitors, i + 1, best)

\* lines 438-441
best_competitor(competitors) ==
  BestFrom(competitors, 1, [site |-> None, score |-> 0])

\* lines 443-450
EvaluateResult(target_metrics, competitors_metrics) ==
  [pos |-> Round4(target_metrics.pos),
   word |-> Round4(target_metrics.word),
   citation_quality |-> Round4(target_metrics.citation_quality),
   total_score |-> Round4(target_metrics.total_score),
   competitors |-> competitors_metrics,
   best_competitor |-> best_competitor(competitors_metrics)]

\* lines 428-450 on a parsed analyzer
EvaluateParsed(parsed) ==
  EvaluateResult(calculate_metrics_for_site(parsed, parsed.target_site),
                 Competitors(parsed))

\* CitationAnalyzer.evaluate on an analyzer no other call touches
evaluate(self, response_text) ==
  EvaluateParsed(parse_response(self, response_text))

\* calculate_metrics: a new analyzer for one call
calculate_metrics(response_text, target_site) ==
  evaluate(NewAnalyzer(target_site), response_text)


(***************************************************************************)
(* Text Comparator: cosinus_comparator.py and text_comparator.py.          *)
(* Numbers: a tf-idf weight is cnt * idf with idf = ln(3 / (df + 1)) + 1,  *)
(* which is 1 for df = 2 and 1.405465... for df = 1.  The model keeps the  *)
(* squares: idf squared in units of 1/81 (81 for df = 2; 160 for df = 1,   *)
(* 160/81 = 1.975309 for 1.975332), a normalised vector as its weights     *)
(* and its squared norm, and a similarity as num / sqrt(den2).             *)
(***************************************************************************)
\* _TOKEN_RE, line 7: [A-Za-z<U+0410>-<U+044F>0-9]
IsTokenChar(c) == IsAsciiAlnum(c) \/ c \in 1040..1103

\* The k-th least element of a set of integers
Nth(S, k) == CHOOSE x \in S : Cardinality({y \in S : y < x}) = k - 1

\* Where the matches of _TOKEN_RE start: the maximal runs of token characters
TokenStarts(s) ==
  {i \in 1..Len(s) : IsTokenChar(s[i]) /\ ~IsTokenChar(CharAt(s, i - 1))}

TokenAt(s, i) == SubSeq(s, i, RunEnd(s, i, IsTokenChar))

\* _TOKEN_RE.findall(s)
FindTokens(s, starts) ==
  [k \in 1..Cardinality(starts) |-> TokenAt(s, Nth(starts, k))]

\* tokenize, lines 10-12
tokenize(text) == FindTokens(Lower(text), TokenStarts(Lower(text)))

\* stopwords=None
NoStopwords == {}

ru_stopwords ==
  { <<1080>>, <<1074>>, <<1074, 1086>>, <<1085, 1072>>,
    <<1085, 1086>>, <<1072>>, <<1095, 1090, 1086>>, <<1082, 1072, 1082>>,
    <<1079, 1072>>, <<1082>>, <<1089>>, <<1089, 1086>>,
    <<1080, 1079>>, <<1091>>, <<1086, 1090>>, <<1087, 1086>>,
    <<1076, 1083, 1103>>, <<1086>>, <<1086, 1073>>, <<1086, 1073, 1086>>,
    <<1076, 1086>>, <<1087, 1088, 1080>>, <<1073, 1077, 1079>>, <<1085, 1072, 1076>>,
    <<1087, 1086, 1076>>, <<1087, 1088, 1086>>, <<1078, 1077>>, <<1083, 1080>>,
    <<1083, 1080, 1073, 1086>>, <<1085, 1080>>, <<1076, 1072>>, <<1090, 1086>>,
    <<1085, 1077>> }

\* remove_stopwords, lines 26-30
remove_stopwords(tokens, stopwords) ==
  IF stopwords = {} THEN tokens
  ELSE SelectSeq(tokens, LAMBDA t : t \notin stopwords)

\* line 22: " ".join(tokens[i:i + n]), i counted from 1
Window(tokens, i, n) == Join(SubSeq(tokens, i, i + n - 1), <<32>>)

\* lines 19-22 for one n
NGrams(tokens, n) ==
  IF n = 1 THEN tokens
  ELSE IF Len(tokens) < n THEN <<>>
  ELSE [i \in 1..(Len(tokens) - n + 1) |-> Window(tokens, i, n)]

RECURSIVE NGramsFrom(_, _, _)
NGramsFrom(tokens, n, hi) ==
  IF n > hi THEN <<>> ELSE NGrams(tokens, n) \o NGramsFrom(tokens, n + 1, hi)

\* generate_ngrams, lines 15-23
generate_ngrams(tokens, ngram_range) ==
  NGramsFrom(tokens, ngram_range[1], ngram_range[2])

\* prepare_tokens, lines 79-87
prepare_tokens(text, stopwords, ngram_range) ==
  generate_ngrams(remove_stopwords(tokenize(text), stopwords), ngram_range)

\* The indexes of the first occurrences in a sequence
FirstOccurrences(toks) ==
  {i \in 1..Len(toks) : \A j \in 1..(i - 1) : toks[j] # toks[i]}

DistinctAt(toks, firsts) ==
  [k \in 1..Cardinality(firsts) |-> toks[Nth(firsts, k)]]

\* build_vocabulary, lines 33-39: the tokens in order of first occurrence;
\* vocab[tok] is the token's place in the sequence, counted from 0
build_vocabulary(corpus_tokens) ==
  DistinctAt(Flatten(corpus_tokens), FirstOccurrences(Flatten(corpus_tokens)))

\* Occurrences of tok in doc (Counter, line 63)
Count(doc, tok) == Cardinality({k \in 1..Len(doc) : doc[k] = tok})

\* df of lines 44-51: the documents that hold tok
DocFreq(corpus_tokens, tok) ==
  Cardinality({d \in 1..Len(corpus_tokens) : Count(corpus_tokens[d], tok) > 0})

\* 1.0 squared, in the unit of the squared weights
IdfUnit == 81

\* line 53, squared, for the corpus of two documents: df is 1 or 2
IdfSquared(N, df) == IF df = N THEN IdfUnit ELSE 160

\* compute_idf, lines 42-54
compute_idf(corpus_tokens, vocab) ==
  [i \in 1..Len(vocab) |->
     IdfSquared(Len(corpus_tokens), DocFreq(corpus_tokens, vocab[i]))]

\* The keys of vec at lines 64-68
VocabIndexes(doc_tokens, vocab) ==
  {i - 1 : i \in {j \in 1..Len(vocab) : Count(doc_tokens, vocab[j]) > 0}}

\* lines 63-68: vec[idx] = cnt * idf[idx]
TermWeights(doc_tokens, vocab, idf) ==
  [idx \in VocabIndexes(doc_tokens, vocab) |->
     [cnt |-> Count(doc_tokens, vocab[idx + 1]), idf2 |-> idf[idx + 1]]]

\* line 58: sum(v * v for v in vec.values()) over the keys in S
RECURSIVE SumSquares(_, _)
SumSquares(vec, S) ==
  IF S = {} THEN 0
  ELSE vec[SetMin(S)].cnt * vec[SetMin(S)].cnt * vec[SetMin(S)].idf2
       + SumSquares(vec, S \ {SetMin(S)})

GuardedNorm(vec, squares) ==
  [vec |-> vec, norm2 |-> IF squares = 0 THEN IdfUnit ELSE squares]

l2_normalize_NoDivide(vec) == [vec |-> vec, norm2 |-> IdfUnit]

\* l2_normalize, lines 57-59: a zero norm is replaced by 1.0
l2_normalize(vec) == GuardedNorm(vec, SumSquares(vec, DOMAIN vec))

\* to_tfidf, lines 62-69
to_tfidf(doc_tokens, vocab, idf) ==
  l2_normalize(TermWeights(doc_tokens, vocab, idf))

DotTerm_DefaultOne(av, bv, idx) ==
  IF idx \in DOMAIN bv THEN av[idx].cnt * bv[idx].cnt * av[idx].idf2
  ELSE av[idx].cnt * av[idx].idf2

\* line 76: sum(val * b.get(idx, 0.0)) over the keys of a in S, times the
\* two norms; both weights at idx carry the same idf
RECURSIVE DotSum(_, _, _)
DotTerm(av, bv, idx) ==
  IF idx \in DOMAIN bv THEN av[idx].cnt * bv[idx].cnt * av[idx].idf2 ELSE 0

DotSum(av, bv, S) ==
  IF S = {} THEN 0
  ELSE DotTerm(av, bv, SetMin(S)) + DotSum(av, bv, S \ {SetMin(S)})

DotOf(a, b) ==
  [num |-> DotSum(a.vec, b.vec, DOMAIN a.vec), den2 |-> a.norm2 * b.norm2]

\* cosine_similarity_sparse, lines 72-76
cosine_similarity_sparse(a, b) ==
  IF Cardinality(DOMAIN a.vec) > Cardinality(DOMAIN b.vec) THEN DotOf(b, a)
  ELSE DotOf(a, b)

\* lines 108-112
SimilarityOfVectors(corpus, vocab, idf) ==
  cosine_similarity_sparse(to_tfidf(corpus[1], vocab, idf),
                           to_tfidf(corpus[2], vocab, idf))

\* lines 104-112
SimilarityOfCorpus(corpus, vocab) ==
  SimilarityOfVectors(corpus, vocab, compute_idf(corpus, vocab))

\* tfidf_cosine_similarity, lines 90-112
tfidf_cosine_similarity(text_a, text_b, stopwords, ngram_range) ==
  SimilarityOfCorpus(
    <<prepare_tokens(text_a, stopwords, ngram_range),
      prepare_tokens(text_b, stopwords, ngram_range)>>,
    build_vocabulary(<<prepare_tokens(text_a, stopwords, ngram_range),
                       prepare_tokens(text_b, stopwords, ngram_range)>>))

\* Long division: <<floor(10^k * (q + r/d)), remainder>>
RECURSIVE ScaleDiv(_, _, _, _)
ScaleDiv(q, r, d, k) ==
  IF k = 0 THEN <<q, r>>
  ELSE ScaleDiv(10 * q + (10 * r) \div d, (10 * r) % d, d, k - 1)

\* floor(sqrt(m)) for m up to 10^6
ISqrt(m) == CHOOSE k \in 0..1000 : k * k <= m /\ m < (k + 1) * (k + 1)

\* sqrt(m + r/d) rounded to the nearest integer, k being floor(sqrt(m))
RoundRoot(m, r, d, k) ==
  IF m > k * k + k \/ (m = k * k + k /\ 4 * r >= d) THEN k + 1 ELSE k

RootOfScaled(qr, d) == RoundRoot(qr[1], qr[2], d, ISqrt(qr[1]))

\* f"{x:.3f}", line 10 of text_comparator.py, as a number of thousandths
Format3(x) ==
  RootOfScaled(ScaleDiv((x.num * x.num) \div x.den2, (x.num * x.num) % x.den2,
                        x.den2, 6),
               x.den2)

\* TextComparator.compare: the two scores of the returned string
compare(text1, text2) ==
  [unigram |-> Format3(tfidf_cosine_similarity(text1, text2, ru_stopwords, <<1, 1>>)),
   bigrams |-> Format3(tfidf_cosine_similarity(text1, text2, ru_stopwords, <<1, 2>>))]
(***************************************************************************)
(* Inputs: response texts and target-site arguments                        *)
(***************************************************************************)
\* Paragraphs per response text
MaxParas == 2

RECURSIVE Rep(_, _)
Rep(s, n) == IF n = 0 THEN <<>> ELSE s \o Rep(s, n - 1)

\* "the cat sat on mat": 5 words
Prose5 == <<116, 104, 101, 32, 99, 97, 116, 32, 115, 97, 116, 32, 111, 110, 32, 109, 97, 116>>
\* 21 one-letter words
Prose21 == Rep(<<120, 32>>, 20) \o <<120>>

SiteA == <<97, 46, 114, 117>>
SiteB == <<98, 46, 114, 117>>
SiteC == <<99, 46, 114, 117>>
SiteD == <<100, 46, 114, 117>>

\* The paragraph blocks a response is made of:
\*   prose, then "a.ru"                 one citation on its own
\*   long prose, then "b.ru, a.ru b.ru" a group of three, b.ru twice
\*   prose only
\*   "b.ru" only                        a block with no prose line
\*   "12", then "c.ru"                  a prose line with no word
Blocks ==
  { Prose5 \o <<10>> \o SiteA,
    Prose21 \o <<10>> \o SiteB \o <<44, 32>> \o SiteA \o <<32>> \o SiteB,
    Prose5,
    SiteB,
    <<49, 50, 10>> \o SiteC }

RECURSIVE TextsOfLen(_)
TextsOfLen(n) ==
  IF n = 0 THEN {<<>>}
  ELSE IF n = 1 THEN Blocks
  ELSE {t \o <<10, 10>> \o b : t \in TextsOfLen(n - 1), b \in Blocks}

Texts == UNION {TextsOfLen(n) : n \in 0..MaxParas}

UpperChar(c) == IF c \in 97..122 THEN c - 32 ELSE c
Upper(s) == [i \in 1..Len(s) |-> UpperChar(s[i])]

\* ":8080" and "/p/q"
Port8080 == <<58, 56, 48, 56, 48>>
PathPQ == <<47, 112, 47, 113>>

\* A way of writing a host as the target_site argument
TargetForm(host, scheme, www, port, path, upper) ==
  IF upper
  THEN Upper(scheme \o (IF www THEN WwwPrefix ELSE <<>>) \o host \o port \o path)
  ELSE scheme \o (IF www THEN WwwPrefix ELSE <<>>) \o host \o port \o path

\* <<scheme, www, port, path, upper>>: each part alone, and combinations
Forms ==
  { <<<<>>, FALSE, <<>>, <<>>, FALSE>>,
    <<HttpPrefix, FALSE, <<>>, <<>>, FALSE>>,
    <<HttpsPrefix, FALSE, <<>>, <<>>, FALSE>>,
    <<<<>>, TRUE, <<>>, <<>>, FALSE>>,
    <<<<>>, FALSE, Port8080, <<>>, FALSE>>,
    <<<<>>, FALSE, <<>>, PathPQ, FALSE>>,
    <<<<>>, FALSE, <<>>, <<>>, TRUE>>,
    <<HttpsPrefix, TRUE, <<>>, <<>>, FALSE>>,
    <<<<>>, FALSE, Port8080, PathPQ, FALSE>>,
    <<HttpPrefix, TRUE, <<>>, PathPQ, FALSE>>,
    <<HttpsPrefix, TRUE, Port8080, PathPQ, FALSE>>,
    <<HttpsPrefix, TRUE, Port8080, PathPQ, TRUE>>,
    <<<<>>, TRUE, <<>>, <<>>, TRUE>>,
    <<HttpPrefix, FALSE, Port8080, <<>>, TRUE>> }

\* [arg, host]: the argument and the host it names.  a.ru in every form,
\* b.ru and d.ru (never cited) bare.
TargetForms ==
  {[arg |-> TargetForm(SiteA, f[1], f[2], f[3], f[4], f[5]), host |-> SiteA] :
      f \in Forms}
  \cup {[arg |-> SiteB, host |-> SiteB], [arg |-> SiteD, host |-> SiteD]}

TargetArgs == {f.arg : f \in TargetForms}
HostOf(arg) == (CHOOSE f \in TargetForms : f.arg = arg).host
BareTargets == {SiteA, SiteB, SiteD}

\* Texts of the comparator, by code point (Cyrillic transliterated here)
\* kot sidit na okne
TextCat == <<1082, 1086, 1090, 32, 1089, 1080, 1076, 1080, 1090, 32, 1085, 1072, 32, 1086, 1082, 1085, 1077>>
\* Kot, kot na okne!
TextCatAgain == <<1050, 1086, 1090, 44, 32, 1082, 1086, 1090, 32, 1085, 1072, 32, 1086, 1082, 1085, 1077, 33>>
\* !!!
TextMarks == <<33, 33, 33>>
\* na, a stopword
TextStop == <<1085, 1072>>
\* Yozh, written with U+0401
TextYo == <<1025, 1078>>
\* pyos sidit, written with U+0451
TextDog == <<1087, 1105, 1089, 32, 1089, 1080, 1076, 1080, 1090>>
\* Cat 42
TextAscii == <<67, 97, 116, 32, 52, 50>>

SimTexts ==
  {<<>>, TextCat, TextCatAgain, TextMarks, TextStop, TextYo, TextDog, TextAscii}

\* The greatest n of the n-gram ranges (lo, hi), 1 <= lo <= hi <= MaxN
MaxN == 2

\* A mapping of competitors as evaluate holds it at line 437: entries
\* [site, metrics] in insertion order, the metrics as to_dict returns them
\* (numbers of 1/10000).  ScoreNone is what to_dict returns for s.ru when the
\* response is "12", then a line of t.ru 16 times and s.ru 3000 times, the
\* target being t.ru.
ScoreFull == [pos |-> 10000, word |-> 10000, citation_quality |-> 10000,
              total_score |-> 10000]
ScoreHalf == [pos |-> 5000, word |-> 5000, citation_quality |-> 4900,
              total_score |-> 4990]
ScoreNone == [pos |-> 0, word |-> 0, citation_quality |-> 2, total_score |-> 0]
Scores == {ScoreFull, ScoreHalf, ScoreNone}

MaxCompetitors == 3
CompetitorSites == {SiteB, SiteC, SiteD}

RECURSIVE MappingsOfLen(_)
MappingsOfLen(n) ==
  IF n = 0 THEN {<<>>}
  ELSE {Append(m, [site |-> s, metrics |-> x]) :
          m \in MappingsOfLen(n - 1), s \in CompetitorSites, x \in Scores}

DistinctSites(m) == \A i, j \in 1..Len(m) : m[i].site = m[j].site => i = j

CompetitorMappings ==
  {m \in UNION {MappingsOfLen(n) : n \in 0..MaxCompetitors} : DistinctSites(m)}

(***************************************************************************)
(* The state machine: one CitationAnalyzer object and the callers of its   *)
(* evaluate method; one tfidf_cosine_similarity call.                      *)
(***************************************************************************)
VARIABLES
  target_arg,      \* the target_site argument of the constructor
  analyzer,        \* the object's fields
  calls,           \* evaluate calls entered on the object so far
  pc,              \* per caller: where its evaluate call stands
  response_text,   \* per caller: the argument of its evaluate call
  frame,           \* per caller: the local variables of _parse_response
  metrics,         \* per caller: target_metrics and competitors_metrics
  result,          \* per caller: what evaluate returned
  sim_args,        \* the arguments of the tfidf_cosine_similarity call
  sim,             \* its local variables and what it returned
  ext_args,        \* the argument of the _extract_domains_from_text call
  ext,             \* its local variables and what it returned
  seg_args,        \* the argument of the _split_into_paragraphs call
  seg,             \* its local variables and what it returned
  html_cashes,     \* the rows of the table html_cashes
  cash_op,         \* the last CashProvider call and how it ended
  committed        \* the put_metric calls committed so far

ext_vars == <<ext_args, ext>>
seg_vars == <<seg_args, seg>>
cash_vars == <<html_cashes, cash_op, committed>>

vars == <<target_arg, analyzer, calls, pc, response_text, frame, metrics,
          result, sim_args, sim, ext_vars, seg_vars, cash_vars>>

Callers == {1, 2}

NoFrame == [paragraphs |-> <<>>, para_idx |-> 0, global_position |-> 0,
            total_words |-> 0]
NoMetrics == [target |-> None, competitors |-> <<>>]
NoResult == None
NoSimArgs == None
NoSim == [stage |-> "none"]
NoExt == [stage |-> "none"]
NoSeg == [stage |-> "none"]
NoCashOp == [op |-> "none"]

\* No similarity call
SimIdle ==
  /\ sim_args = NoSimArgs
  /\ sim = NoSim

\* No extraction call, no segmentation call
ExtIdle ==
  /\ ext_args = None
  /\ ext = NoExt

SegIdle ==
  /\ seg_args = None
  /\ seg = NoSeg

\* The table html_cashes as created: no row, and no call made
CashIdle ==
  /\ html_cashes = {}
  /\ cash_op = NoCashOp
  /\ committed = {}

InitWith(targets) ==
  /\ target_arg \in targets
  /\ analyzer = NewAnalyzer(target_arg)
  /\ calls = 0
  /\ pc = [c \in Callers |-> "idle"]
  /\ response_text = [c \in Callers |-> <<>>]
  /\ frame = [c \in Callers |-> NoFrame]
  /\ metrics = [c \in Callers |-> NoMetrics]
  /\ result = [c \in Callers |-> NoResult]
  /\ SimIdle
  /\ ExtIdle
  /\ SegIdle
  /\ CashIdle

Init == InitWith(TargetArgs)

\* evaluate(response_text) is entered
Call(c, text) ==
  /\ pc[c] = "idle"
  /\ pc' = [pc EXCEPT ![c] = "parse"]
  /\ response_text' = [response_text EXCEPT ![c] = text]
  /\ calls' = calls + 1
  /\ UNCHANGED <<target_arg, analyzer, frame, metrics, result, sim_args, sim,
               ext_vars, seg_vars, cash_vars>>

\* Calls on one analyzer, one after another
MaxCalls == 2

\* evaluate is entered again on the same analyzer after an earlier call
\* returned
CallAgain(c, text) ==
  /\ pc[c] = "done"
  /\ calls < MaxCalls
  /\ pc' = [pc EXCEPT ![c] = "parse"]
  /\ response_text' = [response_text EXCEPT ![c] = text]
  /\ result' = [result EXCEPT ![c] = NoResult]
  /\ calls' = calls + 1
  /\ UNCHANGED <<target_arg, analyzer, frame, metrics, sim_args, sim,
               ext_vars, seg_vars, cash_vars>>

\* _parse_response, lines 224-231
ParseReset(c) ==
  /\ pc[c] = "parse"
  /\ analyzer' = ResetAnalysis(analyzer)
  /\ frame' = [frame EXCEPT ![c] =
                 [paragraphs |-> split_into_paragraphs(response_text[c]),
                  para_idx |-> 0, global_position |-> 0, total_words |-> 0]]
  /\ pc' = [pc EXCEPT ![c] = "index"]
  /\ UNCHANGED <<target_arg, calls, response_text, metrics, result, sim_args, sim,
               ext_vars, seg_vars, cash_vars>>

\* The frame after the paragraph para is indexed
NextFrame(f, para) ==
  [f EXCEPT !.para_idx = @ + 1,
            !.global_position = @ + Len(para.citations),
            !.total_words = @ + WordCount(para.text)]

\* _parse_response, lines 233-257: one paragraph
IndexStep(c) ==
  /\ pc[c] = "index"
  /\ frame[c].para_idx < Len(frame[c].paragraphs)
  /\ analyzer' = IndexParagraph(analyzer,
                                frame[c].paragraphs[frame[c].para_idx + 1],
                                frame[c].para_idx, frame[c].global_position)
  /\ frame' = [frame EXCEPT ![c] =
                 NextFrame(frame[c], frame[c].paragraphs[frame[c].para_idx + 1])]
  /\ UNCHANGED <<target_arg, calls, pc, response_text, metrics, result, sim_args, sim,
               ext_vars, seg_vars, cash_vars>>

\* _parse_response, line 259
ParseFinish(c) ==
  /\ pc[c] = "index"
  /\ frame[c].para_idx >= Len(frame[c].paragraphs)
  /\ analyzer' = [analyzer EXCEPT !.total_words = frame[c].total_words]
  /\ frame' = [frame EXCEPT ![c] = NoFrame]
  /\ pc' = [pc EXCEPT ![c] = "target"]
  /\ UNCHANGED <<target_arg, calls, response_text, metrics, result, sim_args, sim,
               ext_vars, seg_vars, cash_vars>>

\* evaluate, line 428
TargetMetrics(c) ==
  /\ pc[c] = "target"
  /\ IF QualityRaises(analyzer, analyzer.target_site)
     THEN /\ pc' = [pc EXCEPT ![c] = "raised"]
          /\ UNCHANGED metrics
     ELSE /\ pc' = [pc EXCEPT ![c] = "competitors"]
          /\ metrics' = [metrics EXCEPT ![c].target =
                           calculate_metrics_for_site(analyzer,
                                                      analyzer.target_site)]
  /\ UNCHANGED <<target_arg, analyzer, calls, response_text, frame, result, sim_args, sim,
               ext_vars, seg_vars, cash_vars>>

\* evaluate, lines 431-435
CompetitorMetrics(c) ==
  /\ pc[c] = "competitors"
  /\ IF CompetitorsRaise(analyzer)
     THEN /\ pc' = [pc EXCEPT ![c] = "raised"]
          /\ metrics' = [metrics EXCEPT ![c] = NoMetrics]
     ELSE /\ pc' = [pc EXCEPT ![c] = "best"]
          /\ metrics' = [metrics EXCEPT ![c].competitors = Competitors(analyzer)]
  /\ UNCHANGED <<target_arg, analyzer, calls, response_text, frame, result, sim_args, sim,
               ext_vars, seg_vars, cash_vars>>

\* evaluate, lines 437-450
Return(c) ==
  /\ pc[c] = "best"
  /\ result' = [result EXCEPT ![c] =
                  EvaluateResult(metrics[c].target, metrics[c].competitors)]
  /\ metrics' = [metrics EXCEPT ![c] = NoMetrics]
  /\ pc' = [pc EXCEPT ![c] = "done"]
  /\ UNCHANGED <<target_arg, analyzer, calls, response_text, frame, sim_args, sim,
               ext_vars, seg_vars, cash_vars>>

Step(c) ==
  \/ ParseReset(c)
  \/ IndexStep(c)
  \/ ParseFinish(c)
  \/ TargetMetrics(c)
  \/ CompetitorMetrics(c)
  \/ Return(c)

\* calculate_metrics: one analyzer, one evaluate call
Next ==
  \/ \E text \in Texts : Call(1, text)
  \/ Step(1)

Spec == Init /\ [][Next]_vars

\* Response texts of the repeated and of the concurrent calls
MaxSeqParas == 1
SeqTexts == UNION {TextsOfLen(n) : n \in 0..MaxSeqParas}

InitSeq == InitWith(BareTargets)

\* evaluate called again and again on one analyzer, each call after the
\* one before it returned
NextSeq ==
  \/ \E text \in SeqTexts : Call(1, text)
  \/ \E text \in SeqTexts : CallAgain(1, text)
  \/ Step(1)

SpecSeq == InitSeq /\ [][NextSeq]_vars

\* Two callers, one evaluate call each, on the same analyzer with no lock
NextConc ==
  \E c \in Callers :
    \/ \E text \in SeqTexts : Call(c, text)
    \/ Step(c)

SpecConc == InitSeq /\ [][NextConc]_vars

\* evaluate at line 437, the metrics of the target and of the competitors
\* computed: the target is a.ru, not cited
InitBest ==
  /\ target_arg = SiteA
  /\ analyzer = NewAnalyzer(target_arg)
  /\ calls = 1
  /\ pc = [c \in Callers |-> IF c = 1 THEN "best" ELSE "idle"]
  /\ response_text = [c \in Callers |-> <<>>]
  /\ frame = [c \in Callers |-> NoFrame]
  /\ \E m \in CompetitorMappings :
       metrics = [c \in Callers |->
                    IF c = 1
                    THEN [target |-> SiteMetrics(RZero, RZero, RZero),
                          competitors |-> m]
                    ELSE NoMetrics]
  /\ result = [c \in Callers |-> NoResult]
  /\ SimIdle
  /\ ExtIdle
  /\ SegIdle
  /\ CashIdle

NextBest == Return(1)

SpecBest == InitBest /\ [][NextBest]_vars

\* The analyzer untouched
AnalyzerIdle ==
  /\ target_arg = SiteA
  /\ analyzer = NewAnalyzer(target_arg)
  /\ calls = 0
  /\ pc = [c \in Callers |-> "idle"]
  /\ response_text = [c \in Callers |-> <<>>]
  /\ frame = [c \in Callers |-> NoFrame]
  /\ metrics = [c \in Callers |-> NoMetrics]
  /\ result = [c \in Callers |-> NoResult]

analyzer_vars == <<target_arg, analyzer, calls, pc, response_text, frame,
                   metrics, result>>

\* tfidf_cosine_similarity(text_a, text_b, stopwords, ngram_range) is entered
InitSim ==
  /\ AnalyzerIdle
  /\ ExtIdle
  /\ SegIdle
  /\ CashIdle
  /\ sim_args \in [text_a : SimTexts, text_b : SimTexts,
                   stopwords : {NoStopwords, ru_stopwords},
                   ngram_range : {r \in (1..MaxN) \X (1..MaxN) : r[1] <= r[2]}]
  /\ sim = [stage |-> "prepare"]

\* lines 97-101
SimPrepare ==
  /\ sim.stage = "prepare"
  /\ sim' = [stage |-> "vocabulary",
             corpus |-> <<prepare_tokens(sim_args.text_a, sim_args.stopwords,
                                         sim_args.ngram_range),
                          prepare_tokens(sim_args.text_b, sim_args.stopwords,
                                         sim_args.ngram_range)>>]
  /\ UNCHANGED <<analyzer_vars, sim_args, ext_vars, seg_vars, cash_vars>>

\* lines 104-105
SimVocabulary ==
  /\ sim.stage = "vocabulary"
  /\ sim' = [stage |-> "vectors", corpus |-> sim.corpus,
             vocab |-> build_vocabulary(sim.corpus),
             idf |-> compute_idf(sim.corpus, build_vocabulary(sim.corpus))]
  /\ UNCHANGED <<analyzer_vars, sim_args, ext_vars, seg_vars, cash_vars>>

\* lines 108-109
SimVectors ==
  /\ sim.stage = "vectors"
  /\ sim' = [stage |-> "cosine",
             vec_a |-> to_tfidf(sim.corpus[1], sim.vocab, sim.idf),
             vec_b |-> to_tfidf(sim.corpus[2], sim.vocab, sim.idf)]
  /\ UNCHANGED <<analyzer_vars, sim_args, ext_vars, seg_vars, cash_vars>>

\* line 112
SimCosine ==
  /\ sim.stage = "cosine"
  /\ sim' = [stage |-> "done",
             value |-> cosine_similarity_sparse(sim.vec_a, sim.vec_b)]
  /\ UNCHANGED <<analyzer_vars, sim_args, ext_vars, seg_vars, cash_vars>>

NextSim ==
  \/ SimPrepare
  \/ SimVocabulary
  \/ SimVectors
  \/ SimCosine

SpecSim == InitSim /\ [][NextSim]_vars

(***************************************************************************)
(* One _split_into_paragraphs call                                         *)
(***************************************************************************)
\* Lines per segmented text
MaxLines == 2

\* "the cat": 2 words, no domain
LineShort == <<116, 104, 101, 32, 99, 97, 116>>
\* "12": no word, no domain
LineDigits == <<49, 50>>
\* "b.ru, a.ru b.ru": 6 words, 3 domains
LineGroup == SiteB \o <<44, 32>> \o SiteA \o <<32>> \o SiteB
\* "cat sat b.ru": 4 words, 1 domain
LineShortCited == <<99, 97, 116, 32, 115, 97, 116, 32>> \o SiteB
\* "the cat sat b.ru": 5 words, 1 domain
LineFiveCited == <<116, 104, 101, 32>> \o LineShortCited
\* "the cat sat on mat a.ru": 7 words, 1 domain
LineProseCited == Prose5 \o <<32>> \o SiteA
\* "a.ru b.ru x y": 6 words, 2 domains
LineThird == SiteA \o <<32>> \o SiteB \o <<32, 120, 32, 121>>

SegLines ==
  {Prose5, LineShort, LineDigits, SiteA, LineGroup, LineShortCited,
   LineFiveCited, LineProseCited, LineThird}

\* A line break, and a blank line
LineBreaks == {<<10>>, <<10, 10>>}

RECURSIVE SegTextsOfLen(_)
SegTextsOfLen(n) ==
  IF n = 0 THEN {<<>>}
  ELSE IF n = 1 THEN SegLines
  ELSE {t \o br \o l : t \in SegTextsOfLen(n - 1), br \in LineBreaks,
                       l \in SegLines}

SegTexts == UNION {SegTextsOfLen(n) : n \in 0..MaxLines}

\* _split_into_paragraphs(text) is entered
InitSeg ==
  /\ AnalyzerIdle
  /\ SimIdle
  /\ ExtIdle
  /\ CashIdle
  /\ seg_args \in SegTexts
  /\ seg = [stage |-> "split"]

\* line 166
SegSplit ==
  /\ seg.stage = "split"
  /\ seg' = [stage |-> "classify",
             paragraphs_raw |-> ReSplitFrom(Strip(seg_args), 1)]
  /\ UNCHANGED <<analyzer_vars, sim_args, sim, ext_vars, seg_args, cash_vars>>

\* lines 168-197
SegClassify ==
  /\ seg.stage = "classify"
  /\ seg' = [stage |-> "merge", result |-> CollectParagraphs(seg.paragraphs_raw)]
  /\ UNCHANGED <<analyzer_vars, sim_args, sim, ext_vars, seg_args, cash_vars>>

\* lines 199-215
SegMerge ==
  /\ seg.stage = "merge"
  /\ seg' = [stage |-> "done", value |-> MergeTrailing(seg.result, <<>>)]
  /\ UNCHANGED <<analyzer_vars, sim_args, sim, ext_vars, seg_args, cash_vars>>

NextSeg ==
  \/ SegSplit
  \/ SegClassify
  \/ SegMerge

SpecSeg == InitSeg /\ [][NextSeg]_vars

(***************************************************************************)
(* One _extract_domains_from_text call                                      *)
(***************************************************************************)
\* "/p" segments in the path of a written domain
MaxPathSegments == 1

\* example.ru, example.com, example.org, example.info
HostExample == <<101, 120, 97, 109, 112, 108, 101>>
SiteRu == HostExample \o <<46, 114, 117>>
SiteCom == HostExample \o <<46, 99, 111, 109>>
SiteOrg == HostExample \o <<46, 111, 114, 103>>
SiteInfo == HostExample \o <<46, 105, 110, 102, 111>>

ExtHosts == {SiteA, SiteRu, SiteCom, SiteOrg, SiteInfo}

\* A host as it is written in a text: with or without a protocol, www., a
\* path, in lower or upper case
WrittenForms(host) ==
  {TargetForm(host, scheme, www, <<>>, Rep(<<47, 112>>, k), upper) :
     scheme \in {<<>>, HttpPrefix, HttpsPrefix}, www \in BOOLEAN,
     k \in 0..MaxPathSegments, upper \in BOOLEAN}

\* A written domain on its own, in "see X, ok", in "(X)" and in "X."
InContexts(w) ==
  {w,
   <<115, 101, 101, 32>> \o w \o <<44, 32, 111, 107>>,
   <<40>> \o w \o <<41>>,
   w \o <<46>>}

\* The texts with one well-formed domain, each with the host written in it
CasesOf(h) ==
  {[text |-> t, host |-> h] : t \in UNION {InContexts(w) : w \in WrittenForms(h)}}

SingleDomainCases == UNION {CasesOf(h) : h \in ExtHosts}

\* Two hosts written with nothing between them
GluedTexts == {g \o h : g \in ExtHosts, h \in ExtHosts}

ExtTexts == {c.text : c \in SingleDomainCases} \cup GluedTexts \cup {<<>>}

\* _extract_domains_from_text(text) is entered
InitExt ==
  /\ AnalyzerIdle
  /\ SimIdle
  /\ SegIdle
  /\ CashIdle
  /\ ext_args \in ExtTexts
  /\ ext = [stage |-> "glue"]

\* lines 135-145: the glue-repair pass
ExtGlue ==
  /\ ext.stage = "glue"
  /\ ext' = [stage |-> "find", processed_text |-> GlueRepair(ext_args, 1)]
  /\ UNCHANGED <<analyzer_vars, sim_args, sim, ext_args, seg_vars, cash_vars>>

\* line 148: the matches of DOMAIN_PATTERN, group(1) of each
ExtFind ==
  /\ ext.stage = "find"
  /\ ext' = [stage |-> "normalize", processed_text |-> ext.processed_text,
             found |-> DomainFindAll(ext.processed_text, 1)]
  /\ UNCHANGED <<analyzer_vars, sim_args, sim, ext_args, seg_vars, cash_vars>>

\* lines 149-153
ExtNormalize ==
  /\ ext.stage = "normalize"
  /\ ext' = [stage |-> "done", processed_text |-> ext.processed_text,
             value |-> SelectSeq(NormalizeAll(ext.found), LongEnough)]
  /\ UNCHANGED <<analyzer_vars, sim_args, sim, ext_args, seg_vars, cash_vars>>

NextExt ==
  \/ ExtGlue
  \/ ExtFind
  \/ ExtNormalize

SpecExt == InitExt /\ [][NextExt]_vars

(***************************************************************************)
(* The score cache: CashProvider over the table html_cashes.  A number    *)
(* stored in a Float column is the number of 1/10000 it was given as.      *)
(***************************************************************************)
\* str.encode('utf-8') of one code point (no surrogate among the inputs)
Utf8Char(c) ==
  IF c < 128 THEN <<c>>
  ELSE IF c < 2048 THEN <<192 + (c \div 64), 128 + (c % 64)>>
  ELSE IF c < 65536
       THEN <<224 + (c \div 4096), 128 + ((c \div 64) % 64), 128 + (c % 64)>>
  ELSE <<240 + (c \div 262144), 128 + ((c \div 4096) % 64),
         128 + ((c \div 64) % 64), 128 + (c % 64)>>

\* content.encode('utf-8')
Utf8(content) == Flatten([k \in 1..Len(content) |-> Utf8Char(content[k])])

\* hashlib.sha256(bytes).hexdigest(): the digest is a value determined by
\* the bytes, and two byte strings with one digest are not among the inputs
Sha256Hex(bytes) == [sha256 |-> bytes]

\* lines 12 and 20
CodeOf(content) == Sha256Hex(Utf8(content))

RowsWithCode_AnyCode(table, code) == table

\* line 13: query(HTMLCash).filter_by(code=cash)
RowsWithCode(table, code) == {r \in table : r.code = code}

\* line 13: .first()
QueryFirst(rows) == IF rows = {} THEN None ELSE CHOOSE r \in rows : TRUE

\* lines 14-16
MetricOf(line) ==
  IF line # None THEN <<line.position, line.word, line.citation, line.score>>
  ELSE None

\* CashProvider.get_metric on a table
get_metric(content, table) ==
  MetricOf(QueryFirst(RowsWithCode(table, CodeOf(content))))

\* lines 21-27
NewRow(content, pos, word, citation_quality, total_score) ==
  [code |-> CodeOf(content), position |-> pos, word |-> word,
   citation |-> citation_quality, score |-> total_score]

\* The page contents: "", "Cat 42", "na" in Cyrillic
CashContents == {<<>>, TextAscii, TextStop}

\* CashProvider.get_metric(content, db_session), lines 11-16
GetMetric(content) ==
  /\ cash_op' = [op |-> "get", content |-> content,
                 returned |-> get_metric(content, html_cashes),
                 raised |-> FALSE]
  /\ UNCHANGED <<analyzer_vars, sim_args, sim, ext_vars, seg_vars,
                 html_cashes, committed>>

\* CashProvider.put_metric(content, pos, word, citation_quality,
\* total_score, db_session), lines 19-29: code is the primary key of the
\* table, so the commit of a second row with the code of a stored row
\* raises and stores nothing
PutMetric(content, m) ==
  /\ IF RowsWithCode(html_cashes, CodeOf(content)) # {}
     THEN /\ cash_op' = [op |-> "put", content |-> content,
                         returned |-> None, raised |-> TRUE]
          /\ UNCHANGED <<html_cashes, committed>>
     ELSE /\ html_cashes' = html_cashes \cup
               {NewRow(content, m.pos, m.word, m.citation_quality,
                       m.total_score)}
          /\ committed' = committed \cup {[content |-> content, metric |-> m]}
          /\ cash_op' = [op |-> "put", content |-> content,
                         returned |-> None, raised |-> FALSE]
  /\ UNCHANGED <<analyzer_vars, sim_args, sim, ext_vars, seg_vars>>

\* The table as created, no call made yet
InitCash ==
  /\ AnalyzerIdle
  /\ SimIdle
  /\ ExtIdle
  /\ SegIdle
  /\ CashIdle

NextCash ==
  \/ \E content \in CashContents : GetMetric(content)
  \/ \E content \in CashContents, m \in Scores : PutMetric(content, m)

SpecCash == InitCash /\ [][NextCash]_vars

(***************************************************************************)
(* Properties                                                              *)
(***************************************************************************)
\* The evaluate call of caller c is past _parse_response
Parsed(c) == pc[c] \in {"target", "competitors", "best", "done"}

\* The sites the analyzer discovered, and those with the target
CitedSites ==
  {analyzer.site_citations[i].site : i \in 1..Len(analyzer.site_citations)}

ScoredSites == CitedSites \cup {analyzer.target_site}

CitationsOf(site) == SiteCitations(analyzer.site_citations, site)

\* 0 <= x <= 1
InUnit(x) == RLeq(RZero, x) /\ RLeq(x, ROne)

ZeroResult ==
  [pos |-> 0, word |-> 0, citation_quality |-> 0, total_score |-> 0,
   competitors |-> <<>>, best_competitor |-> [site |-> None, score |-> 0]]

\* The response texts with no domain in them
DomainFreeTexts == {t \in Texts : extract_domains_from_text(t) = <<>>}

\* C1: evaluate never raises, a response text with no domain in it (the
\* empty text, prose only) yields no citation, and whenever no citation is
\* found the call returns pos = word = citation_quality = total_score = 0,
\* no competitor and a best competitor with site none and score 0.
C1_CitationFreeIsZero ==
  /\ pc[1] # "raised"
  /\ (pc[1] = "done" /\ response_text[1] \in DomainFreeTexts)
       => analyzer.all_citations = <<>>
  /\ (pc[1] = "done" /\ analyzer.all_citations = <<>>)
       => result[1] = ZeroResult

\* C1 happens: a prose-only response was evaluated to the zero result
C1_Witness ==
  /\ pc[1] = "done"
  /\ response_text[1] = Prose5
  /\ analyzer.all_citations = <<>>
  /\ result[1] = ZeroResult

\* 0.5 ** position
HalfPower(c) == R(1, Pow2(c.position))

PosByFormula(citations) == RMin(ROne, SumOver(citations, HalfPower))

CitedOnceEarlier(xs, ys) ==
  Len(xs) = 1 /\ Len(ys) = 1 /\ xs[1].position < ys[1].position

Earlier(c1, c2) ==
  c1 \in 1..Len(analyzer.all_citations)
  /\ c2 \in 1..Len(analyzer.all_citations)
  /\ analyzer.all_citations[c1].position < analyzer.all_citations[c2].position

ParagraphShares(k) ==
  RSum([i \in 1..Len(analyzer.site_citations) |->
          Attributed(analyzer, analyzer.site_citations[i].citations, k - 1)])

RawByFormula(c) ==
  RAdd(RAdd(R(1, c.group_size),
            IF c.index_in_group < 3 THEN R(3 - c.index_in_group, 10) ELSE RZero),
       IF c.window_words > 20 THEN R(2, 10) ELSE RZero)

\* 1.0 both kinds, 0.9 solo only, 0.7 grouped only
FactorByFormula(citations) ==
  IF HasSolo(citations) /\ HasGroup(citations) THEN ROne
  ELSE IF HasSolo(citations) THEN R(9, 10)
  ELSE R(7, 10)

\* 0.1 when the response holds exactly one citation
BonusByFormula ==
  IF Len(analyzer.all_citations) = 1 THEN R(1, 10) ELSE RZero

QualityByFormula(citations) ==
  RMin(ROne,
       RAdd(RMul(RMul(SumOver(citations, RawByFormula), R(1, Len(citations))),
                 FactorByFormula(citations)),
            BonusByFormula))

\* C4: when evaluate returns, no citation has group_size 0 (the division of the
\* raw score cannot fault), and CitationQuality of every cited site is the
\* average raw score times the solo/group factor plus the one-citation
\* bonus, clamped to at most 1, and lies in [0,1].
C4_QualityInUnit ==
  pc[1] = "done" =>
    /\ \A c \in 1..Len(analyzer.all_citations) :
         analyzer.all_citations[c].group_size >= 1
    /\ \A s \in CitedSites :
         /\ ~QualityRaises(analyzer, s)
         /\ calculate_citation_quality(analyzer, s)
              = QualityByFormula(CitationsOf(s))
         /\ InUnit(calculate_citation_quality(analyzer, s))

\* C4 happens: a site with a solo and a grouped citation, a site whose
\* quality is clamped to 1 and a site whose quality is below 1
C4_Witness ==
  /\ pc[1] = "done"
  /\ \E s \in CitedSites : HasSolo(CitationsOf(s)) /\ HasGroup(CitationsOf(s))
  /\ \E s \in CitedSites : calculate_citation_quality(analyzer, s) = ROne
  /\ \E s \in CitedSites : RLess(calculate_citation_quality(analyzer, s), ROne)

\* 0.6 * pos + 0.3 * word + 0.1 * citation_quality
Blend(pos, word, citation_quality) ==
  RAdd(RAdd(RMul(R(6, 10), pos), RMul(R(3, 10), word)),
       RMul(R(1, 10), citation_quality))

BlendOf(m) ==
  m.total_score = Blend(m.pos, m.word, m.citation_quality)
  /\ InUnit(m.total_score)

BlendOfSite(s, m) ==
  /\ m.pos = calculate_pos(analyzer, s)
  /\ m.word = calculate_word(analyzer, s)
  /\ m.citation_quality = calculate_citation_quality(analyzer, s)
  /\ BlendOf(m)

\* C5: when evaluate returns, the metrics of every site carry TotalScore = 0.6 Pos + 0.3 Word +
\* 0.1 CitationQuality of that site's own three metrics, in [0,1]; so do
\* the target's metrics evaluate holds, and the total_score it returns is
\* that number rounded to 4 decimals.
C5_TotalScoreIsBlend ==
  /\ pc[1] = "done" =>
       \A s \in ScoredSites :
         BlendOfSite(s, calculate_metrics_for_site(analyzer, s))
  /\ pc[1] \in {"competitors", "best"} => BlendOf(metrics[1].target)
  /\ pc[1] = "done" =>
       result[1].total_score
         = Round4(Blend(calculate_pos(analyzer, analyzer.target_site),
                        calculate_word(analyzer, analyzer.target_site),
                        calculate_citation_quality(analyzer, analyzer.target_site)))

\* C5 happens: a target whose three metrics differ
C5_Witness ==
  /\ pc[1] = "done"
  /\ result[1].pos # result[1].word
  /\ result[1].word # result[1].citation_quality
  /\ result[1].total_score > 0

\* C6: whatever the interleaving of two evaluate calls on one analyzer, no
\* call raises and each returns what it returns when run alone on a new
\* analyzer with the same target.
C6_ConcurrentAsAlone ==
  \A c \in Callers :
    /\ pc[c] # "raised"
    /\ pc[c] = "done" =>
         result[c] = calculate_metrics(response_text[c], target_arg)

\* C7: in any sequence of evaluate calls on one analyzer, once a call has
\* parsed its text the analyzer is what a new analyzer with the same target
\* is after parsing that text, and the call returns what evaluate returns
\* on that new analyzer.
C7_FreshStatePerCall ==
  /\ Parsed(1) =>
       analyzer = parse_response(NewAnalyzer(target_arg), response_text[1])
  /\ pc[1] = "done" =>
       result[1] = calculate_metrics(response_text[1], target_arg)

\* C7 happens: a second call, of a text with no citation, returned on an
\* analyzer whose first call is over
C7_Witness ==
  /\ calls = 2
  /\ pc[1] = "done"
  /\ response_text[1] = Prose5
  /\ result[1] = ZeroResult

\* Entry i of the mapping m has the maximum total_score, and is the first
\* that has it
IsFirstMax(m, i) ==
  /\ \A j \in 1..Len(m) : m[j].metrics.total_score <= m[i].metrics.total_score
  /\ \A j \in 1..(i - 1) : m[j].metrics.total_score < m[i].metrics.total_score

BestIs(best, m) ==
  IF m = <<>> THEN best = [site |-> None, score |-> 0]
  ELSE \E i \in 1..Len(m) :
         /\ IsFirstMax(m, i)
         /\ best.site = m[i].site
         /\ best.score = m[i].metrics.total_score

\* C8: when evaluate returns, best_competitor names the first entry of the
\* competitors mapping with the maximum total_score, with that score, if
\* the mapping is not empty, and site none with score 0 if it is empty.
C8_BestIsFirstMaximum ==
  pc[1] = "done" => BestIs(result[1].best_competitor, result[1].competitors)

CompetitorKeys(competitors) ==
  {competitors[i].site : i \in 1..Len(competitors)}

CitedDomains ==
  {analyzer.all_citations[i].domain : i \in 1..Len(analyzer.all_citations)}

\* C9: whatever form of a host is given as the target (scheme, www., port,
\* path, letter case), the analyzer's target is the bare host in lower
\* case, evaluate returns what it returns for the bare host on the same
\* response, and the keys of the competitors mapping are the cited domains
\* but the host.
C9_TargetFormsAgree ==
  /\ analyzer.target_site = HostOf(target_arg)
  /\ pc[1] = "done" =>
       /\ result[1] = calculate_metrics(response_text[1], HostOf(target_arg))
       /\ CompetitorKeys(result[1].competitors)
            = CitedDomains \ {HostOf(target_arg)}

\* C9 happens: the target given with scheme, www., port and path in upper
\* case, cited in the response beside another site
C9_Witness ==
  /\ pc[1] = "done"
  /\ target_arg = TargetForm(SiteA, HttpsPrefix, TRUE, Port8080, PathPQ, TRUE)
  /\ SiteA \in CitedDomains
  /\ CompetitorKeys(result[1].competitors) = {SiteB}
  /\ result[1].total_score > 0

\* A returned similarity of a text with itself, unigrams only
SelfSimilarity ==
  /\ sim.stage = "done"
  /\ sim_args.text_a = sim_args.text_b
  /\ sim_args.ngram_range = <<1, 1>>

\* num / sqrt(den2) = 1
IsOne(x) == x.num * x.num = x.den2

SelfScoreIsOne ==
  /\ IsOne(sim.value)
  /\ Format3(sim.value) = 1000
  /\ sim_args.stopwords = ru_stopwords =>
       compare(sim_args.text_a, sim_args.text_b).unigram = 1000

\* C10 as amended: the unigram similarity of a text with itself is 1.0, and
\* compare reports it as 1.000, for every text that leaves at least one
\* token after tokenization and stopword removal.
C10_SelfSimilarityOfTokens ==
  (SelfSimilarity
   /\ prepare_tokens(sim_args.text_a, sim_args.stopwords, <<1, 1>>) # <<>>)
    => SelfScoreIsOne

\* C10 happens: "kot sidit na okne" compared with itself by compare
C10_Witness ==
  /\ SelfSimilarity
  /\ sim_args.text_a = TextCat
  /\ sim_args.stopwords = ru_stopwords
  /\ Format3(sim.value) = 1000

\* C10 as stated: the unigram similarity of a text with itself is 1.0, and
\* compare reports it as 1.000, for every non-empty text.
C10_SelfSimilarityOfNonEmpty ==
  (SelfSimilarity /\ sim_args.text_a # <<>>) => SelfScoreIsOne

\* The tokens a text keeps after tokenization and stopword removal
KeptTokens(text, stopwords) ==
  {remove_stopwords(tokenize(text), stopwords)[k] :
     k \in 1..Len(remove_stopwords(tokenize(text), stopwords))}

\* A returned similarity of two texts that share no kept token
SharesNoToken ==
  /\ sim.stage = "done"
  /\ KeptTokens(sim_args.text_a, sim_args.stopwords)
       \cap KeptTokens(sim_args.text_b, sim_args.stopwords) = {}

\* num / sqrt(den2) = 0 with a denominator that is not zero
IsZero(x) == x.num = 0 /\ x.den2 > 0

\* C11: for every n-gram range, the similarity of two texts that share no
\* token after stopword removal is exactly 0.0 and is reported as 0.000,
\* also when one or both texts yield no token at all: the norm of an empty
\* vector is replaced by 1.0, so the denominator is never zero.
C11_DisjointIsZero ==
  SharesNoToken => (IsZero(sim.value) /\ Format3(sim.value) = 0)

\* C11 happens: "kot sidit na okne" against "Cat 42" with unigrams and
\* bigrams, both documents having tokens and none in common
C11_Witness ==
  /\ SharesNoToken
  /\ sim_args.text_a = TextCat
  /\ sim_args.text_b = TextAscii
  /\ sim_args.ngram_range = <<1, 2>>
  /\ sim.value.num = 0
  /\ sim.value.den2 > IdfUnit * IdfUnit

\* The segmentation of caller c's response, as _parse_response receives it
Segmented(c) == pc[c] = "index" /\ frame[c].para_idx = 0

NonBlank(para) == Strip(para) # <<>>

\* The blank-line-separated paragraphs of a text
RawParagraphs(text) == SelectSeq(ReSplitFrom(Strip(text), 1), NonBlank)

\* A paragraph with citation lines and no prose line
IsCitationBlock(para) ==
  SplitLines(para).text_lines = <<>> /\ SplitLines(para).citation_lines # <<>>

HasProse(para) == SplitLines(para).text_lines # <<>>

\* A citation block that comes after a paragraph with prose
HasTrailingBlock(raws) ==
  \E k \in 2..Len(raws) :
    IsCitationBlock(raws[k]) /\ \E j \in 1..(k - 1) : HasProse(raws[j])

\* The trailing-citation-block rule applied to one raw paragraph, given its
\* lines sl and the paragraphs acc emitted so far
FoldBlock(acc, sl) ==
  IF sl.text_lines # <<>> THEN acc \o ParagraphEntry(sl)
  ELSE IF sl.citation_lines # <<>> /\ acc # <<>>
       THEN [acc EXCEPT ![Len(acc)].citations = @ \o sl.citation_lines]
       ELSE acc

RECURSIVE FoldBlocks(_, _)
FoldBlocks(raws, acc) ==
  IF raws = <<>> THEN acc
  ELSE FoldBlocks(Tail(raws), FoldBlock(acc, SplitLines(raws[1])))

\* The response texts whose segmentation is the one the rule gives: the
\* citations of a citation block are kept in the paragraph before it
TextsFoldingBlocks ==
  {t \in Texts : split_into_paragraphs(t) = FoldBlocks(RawParagraphs(t), <<>>)}

\* C12: when a response has a blank-line-separated paragraph with citation
\* lines and no prose line after a paragraph with prose, the segmentation
\* holds that block's citations, in order, at the end of the citation list
\* of the paragraph before it, and emits no paragraph for the block.
C12_TrailingBlockIsMerged ==
  (Segmented(1) /\ HasTrailingBlock(RawParagraphs(response_text[1])))
    => response_text[1] \in TextsFoldingBlocks

\* The numbers d and w of a line
DomainsIn(line) == Len(extract_domains_from_text(line))

\* A citation line as stated: d >= w/3 or w < 5
StatedCitationLine(line) ==
  3 * DomainsIn(line) >= WordCount(line) \/ WordCount(line) < 5

StatedProseLine(line) == ~StatedCitationLine(line)

\* A citation line: at least one domain, and d >= w/3 or w < 5
CitingLine(line) == DomainsIn(line) >= 1 /\ StatedCitationLine(line)

NonCitingLine(line) == ~CitingLine(line)

\* The lines of one raw paragraph
LinesOf(para) == SelectSeq(StripAll(SplitOn(Strip(para), 10)), NonEmpty)

\* One raw paragraph by its prose lines and its citation lines: the prose
\* lines joined by a space and the domains of the citation lines, in line
\* order; nothing when there is no prose line
EntryOf(prose, citing) ==
  IF prose = <<>> THEN <<>>
  ELSE <<[text |-> Join(prose, <<32>>), citations |-> DomainsOfLines(citing)]>>

StatedEntry(para) ==
  EntryOf(SelectSeq(LinesOf(para), StatedProseLine),
          SelectSeq(LinesOf(para), StatedCitationLine))

CitingEntry(para) ==
  EntryOf(SelectSeq(LinesOf(para), NonCitingLine),
          SelectSeq(LinesOf(para), CitingLine))

StatedEntries(raws) == Flatten([k \in 1..Len(raws) |-> StatedEntry(raws[k])])

CitingEntries(raws) == Flatten([k \in 1..Len(raws) |-> CitingEntry(raws[k])])

\* C13 as amended: a non-empty line with d extracted domains and w words is
\* a citation line exactly when d >= 1 and (d >= w/3 or w < 5), and a prose
\* line otherwise; the prose lines of a paragraph are joined into its text
\* and only its citation lines contribute domains, in line order, to its
\* citations.
C13_CitationLineNeedsDomain ==
  seg.stage = "done" => seg.value = CitingEntries(RawParagraphs(seg_args))

\* C13 happens: "the cat" (no domain, 2 words) is kept as prose and
\* "cat sat b.ru" (1 domain, 4 words) is a citation line
C13_Witness ==
  /\ seg.stage = "done"
  /\ seg_args = LineShort \o <<10>> \o LineShortCited
  /\ seg.value = <<[text |-> LineShort, citations |-> <<SiteB>>]>>

\* C13 as stated: a non-empty line with d extracted domains and w words is
\* a citation line exactly when d >= w/3 or w < 5.
C13_CitationLineRule ==
  seg.stage = "done" => seg.value = StatedEntries(RawParagraphs(seg_args))

\* The texts with one well-formed domain from which exactly its host is
\* extracted, in lower case and with nothing inserted by the glue-repair pass
ExtractedAsWritten ==
  {c.text : c \in {d \in SingleDomainCases :
                     /\ extract_domains_from_text(d.text) = <<d.host>>
                     /\ GlueRepair(d.text, 1) = d.text}}

\* The texts with one well-formed domain
SingleDomainTexts == {c.text : c \in SingleDomainCases}

\* C14: from a text with one well-formed domain delimited by whitespace,
\* punctuation or the end of the text (written with or without a protocol,
\* www. and a path, with a TLD of any length), extract_domains returns
\* exactly that host in lower case, and the glue-repair pass inserts no
\* space.
C14_SingleDomainExtracted ==
  (ext.stage = "done" /\ ext_args \in SingleDomainTexts)
    => /\ ext_args \in ExtractedAsWritten
       /\ ext.processed_text = ext_args

\* The domains extracted from a text the glue-repair pass has been applied to
DomainsOfRepaired(processed_text) ==
  SelectSeq(NormalizeAll(DomainFindAll(processed_text, 1)), LongEnough)

\* C15: the glue-repair pass applied to its own output inserts no further
\* space, so repairing twice gives the same text and the same extracted
\* domains as repairing once.
C15_GlueRepairIdempotent ==
  ext.stage = "done"
    => /\ GlueRepair(ext.processed_text, 1) = ext.processed_text
       /\ DomainsOfRepaired(GlueRepair(ext.processed_text, 1)) = ext.value

\* _parse_response of caller c has just returned
JustParsed(c) == pc[c] = "target"

\* The flat sequence of citations, and its length
All == analyzer.all_citations

NumCitations == Len(analyzer.all_citations)

\* The citation lists of the paragraphs, one after another
EmissionOrder ==
  Flatten([p \in 1..Len(analyzer.paragraphs) |->
             [i \in 1..Len(analyzer.paragraphs[p].citations) |->
                [domain |-> analyzer.paragraphs[p].citations[i],
                 paragraph_index |-> p - 1, index_in_group |-> i - 1]]])

\* Where the k-th citation stands: its domain, paragraph and index
PlaceOf(c) ==
  [domain |-> c.domain, paragraph_index |-> c.paragraph_index,
   index_in_group |-> c.index_in_group]

\* The citations of the flat sequence that name a site, in order
FlatOf(site) == SelectSeq(All, LAMBDA c : c.domain = site)

\* C16: after _parse_response the k-th citation emitted has position k - 1
\* (0, 1, ..., n-1, dense and strictly increasing); the emission order is
\* paragraph order and, within a paragraph, the order of its citation list;
\* and the per-domain lists hold exactly the citations of the flat
\* sequence, each list in the flat sequence's order.
C16_PositionsDense ==
  JustParsed(1) =>
    /\ \A k \in 1..NumCitations : All[k].position = k - 1
    /\ [k \in 1..NumCitations |-> PlaceOf(All[k])] = EmissionOrder
    /\ \A i \in 1..Len(analyzer.site_citations) :
         /\ analyzer.site_citations[i].citations # <<>>
         /\ analyzer.site_citations[i].citations
              = FlatOf(analyzer.site_citations[i].site)
    /\ \A k \in 1..NumCitations : All[k].domain \in CitedSites

\* C16 happens: two paragraphs, the first with a group of three citations
\* and the second with one, positions 0 to 3
C16_Witness ==
  /\ JustParsed(1)
  /\ NumCitations = 4
  /\ All[3].paragraph_index = 0
  /\ All[4].paragraph_index = 1
  /\ All[4].position = 3

\* The citations of the paragraph with index p
InParagraph(p) == {k \in 1..NumCitations : All[k].paragraph_index = p}

\* The sum of word_count over the paragraphs
RECURSIVE SumWordCounts(_)
SumWordCounts(paragraphs) ==
  IF paragraphs = <<>> THEN 0
  ELSE paragraphs[1].word_count + SumWordCounts(Tail(paragraphs))

\* C17: after _parse_response every citation's group_size is the number of
\* citations with its paragraph_index and is at least 1, its index_in_group
\* is within 0..group_size-1 and no two citations of a paragraph share it,
\* its window_words is its paragraph's word_count, and total_words is the
\* sum of word_count over the emitted paragraphs.
C17_GroupsAndWords ==
  JustParsed(1) =>
    /\ \A k \in 1..NumCitations :
         /\ All[k].group_size = Cardinality(InParagraph(All[k].paragraph_index))
         /\ All[k].group_size >= 1
         /\ All[k].index_in_group \in 0..(All[k].group_size - 1)
         /\ All[k].paragraph_index \in 0..(Len(analyzer.paragraphs) - 1)
         /\ All[k].window_words
              = analyzer.paragraphs[All[k].paragraph_index + 1].word_count
    /\ \A j, k \in 1..NumCitations :
         (All[j].paragraph_index = All[k].paragraph_index
          /\ All[j].index_in_group = All[k].index_in_group) => j = k
    /\ analyzer.total_words = SumWordCounts(analyzer.paragraphs)

\* C17 happens: a paragraph of 21 words with a group of three citations and
\* a paragraph of 5 words with one citation
C17_Witness ==
  /\ JustParsed(1)
  /\ NumCitations = 4
  /\ All[1].group_size = 3
  /\ All[1].window_words = 21
  /\ All[4].group_size = 1
  /\ All[4].window_words = 5
  /\ analyzer.total_words = 26

\* A letter of the Latin or Cyrillic alphabet, U+0401 and U+0451 (yo)
\* included, or a digit
IsLetterOrDigit(c) == IsAsciiAlnum(c) \/ c \in 1040..1103 \/ c \in {1025, 1105}

\* Where the maximal runs of letters and digits start
LetterRunStarts(s) ==
  {i \in 1..Len(s) : IsLetterOrDigit(s[i]) /\ ~IsLetterOrDigit(CharAt(s, i - 1))}

LetterRunsFrom(s, starts) ==
  [k \in 1..Cardinality(starts) |->
     SubSeq(s, Nth(starts, k), RunEnd(s, Nth(starts, k), IsLetterOrDigit))]

\* The maximal runs of letters and digits of a text, in lower case
LetterRuns(text) == LetterRunsFrom(Lower(text), LetterRunStarts(Lower(text)))

\* The tokens of both documents are in hand, as tokenize returned them
Tokenized ==
  /\ sim.stage = "vocabulary"
  /\ sim_args.stopwords = NoStopwords
  /\ sim_args.ngram_range = <<1, 1>>

\* C18: tokenize returns, in order, the lower-cased maximal runs of letters
\* or digits of the text; every Latin and Cyrillic letter, yo included,
\* stays inside its token and only punctuation and whitespace separate
\* tokens.
C18_TokensAreLetterRuns ==
  Tokenized => /\ sim.corpus[1] = LetterRuns(sim_args.text_a)
               /\ sim.corpus[2] = LetterRuns(sim_args.text_b)

\* The metrics committed for a content, as the tuple get_metric returns
TupleOf(m) == <<m.pos, m.word, m.citation_quality, m.total_score>>

CommittedFor(puts, content) == {p \in puts : p.content = content}

StoredFor(puts, content) ==
  IF CommittedFor(puts, content) = {} THEN None
  ELSE TupleOf((CHOOSE p \in CommittedFor(puts, content) : TRUE).metric)

\* One CashProvider call keeps the round trip: what get_metric returns for
\* any content is what was committed for it; a get_metric call returns
\* that and leaves the table as it is; a put_metric call leaves what
\* get_metric returns for every other content as it is
RoundTripStep ==
  /\ \A c \in CashContents :
       /\ Cardinality(CommittedFor(committed', c)) <= 1
       /\ get_metric(c, html_cashes') = StoredFor(committed', c)
  /\ cash_op'.op = "get" =>
       /\ html_cashes' = html_cashes
       /\ ~cash_op'.raised
       /\ cash_op'.returned = StoredFor(committed, cash_op'.content)
  /\ cash_op'.op = "put" =>
       \A c \in CashContents \ {cash_op'.content} :
         get_metric(c, html_cashes') = get_metric(c, html_cashes)

====
